---- MODULE Spec2Model ----
(***************************************************************************)
(* Model of the cortex-gateway request handlers that write the relational  *)
(* store: the queue enqueue triggers (triage rerun, backfill), dead-letter *)
(* recovery (retry, retry-all, delete), backfill cancellation and the      *)
(* mapping CRUD transactions, together with the external worker that       *)
(* drains the queue.                                                       *)
(*                                                                         *)
(* Strings that the code transforms (addresses, glob patterns) are         *)
(* sequences of one-character strings so that lower(), strip() and LIKE    *)
(* are computed, not assumed.                                              *)
(***************************************************************************)
EXTENDS Integers, Sequences, FiniteSets, TLC

\* ------------------------------------------------------------------ bounds
\* number of queue rows that may ever be inserted (the serial id range)
MaxRows == 2

\* number of emails the store holds in the selection scenarios
MaxEmails == 2

\* size of the connection pool (maxconn, 10 in init_pool)
MaxConn == 1

\* number of files ever created in the token directory
MaxInodes == 3

\* number of token writes counted per OAuth state
MaxWrites == 2

\* two request handlers may be in flight at the same time
Slots == {1, 2}

NULL == "NULL"

\* ------------------------------------------------------- program constants
MAPPING_CHANGE_REPROCESS_PRIORITY == -200
DefaultRerunPriority == -100
DefaultBackfillPriority == -100
DefaultDays == 7

QueueNames == {"triage", "parse", "attachment"}
NonTerminal == {"pending", "processing"}

\* ------------------------------------------------------------ text helpers
\* "foo@example.com", " Foo@Example.com ", "Foo@Example.com", "*@example.com",
\* "bar@example.com"
FooExample == <<"f", "o", "o", "@", "e", "x", "a", "m", "p", "l", "e", ".", "c", "o", "m">>
FooExampleRaw ==
    <<" ", "F", "o", "o", "@", "E", "x", "a", "m", "p", "l", "e", ".", "c", "o", "m", " ">>
FooExampleFrom == <<"F", "o", "o", "@", "E", "x", "a", "m", "p", "l", "e", ".", "c", "o", "m">>
StarExample == <<"*", "@", "E", "x", "a", "m", "p", "l", "e", ".", "c", "o", "m">>
BarExample == <<"b", "a", "r", "@", "e", "x", "a", "m", "p", "l", "e", ".", "c", "o", "m">>

\* "*@spam.com" and the addresses "alice@spam.com", "bob@spam.com",
\* "alice@spam.com.evil.net", "a_b@spam.com", "aXb@spam.com", "a%b@spam.com",
\* "a\b@spam.com"; the last three double as patterns
StarSpam == <<"*", "@", "s", "p", "a", "m", ".", "c", "o", "m">>
AliceSpam ==
    <<"a", "l", "i", "c", "e", "@", "s", "p", "a", "m", ".", "c", "o", "m">>
BobSpam == <<"b", "o", "b", "@", "s", "p", "a", "m", ".", "c", "o", "m">>
AliceSpamEvil ==
    <<"a", "l", "i", "c", "e", "@", "s", "p", "a", "m", ".", "c", "o", "m", ".", "e", "v", "i", "l", ".", "n", "e", "t">>
UnderscoreSpam == <<"a", "_", "b", "@", "s", "p", "a", "m", ".", "c", "o", "m">>
XSpam == <<"a", "X", "b", "@", "s", "p", "a", "m", ".", "c", "o", "m">>
PercentSpam == <<"a", "%", "b", "@", "s", "p", "a", "m", ".", "c", "o", "m">>
BackslashSpam == <<"a", "\\", "b", "@", "s", "p", "a", "m", ".", "c", "o", "m">>

TypePriority == <<"p", "r", "i", "o", "r", "i", "t", "y">>
TypeFallback == <<"f", "a", "l", "l", "b", "a", "c", "k">>
\* " fallback ": passes the type validation only after trimming
TypeFallbackRaw == <<" ", "f", "a", "l", "l", "b", "a", "c", "k", " ">>
TypeBogus == <<"b", "o", "g", "u", "s">>

\* str.lower() on the alphabet used here
LowerChar(c) ==
    CASE c = "F" -> "f"
      [] c = "E" -> "e"
      [] c = "B" -> "b"
      [] OTHER -> c

Lower(str) == [i \in 1..Len(str) |-> LowerChar(str[i])]

RECURSIVE LStrip(_)
LStrip(str) ==
    IF str = <<>> THEN <<>>
    ELSE IF Head(str) = " " THEN LStrip(Tail(str)) ELSE str

RECURSIVE RStrip(_)
RStrip(str) ==
    IF str = <<>> THEN <<>>
    ELSE IF str[Len(str)] = " " THEN RStrip(SubSeq(str, 1, Len(str) - 1)) ELSE str

\* str.strip()
Strip(str) == RStrip(LStrip(str))

\* str.replace(c, rep) for a one-character c
RECURSIVE Replace(_, _, _)
Replace(str, c, rep) ==
    IF str = <<>> THEN <<>>
    ELSE (IF Head(str) = c THEN rep ELSE <<Head(str)>>) \o Replace(Tail(str), c, rep)

\* a conversion that leaves the LIKE specials of the pattern unescaped
GlobToLikeNoEscape(s) == Replace(s, "*", <<"%">>)

\* triage.py: escape LIKE specials, then map glob * to SQL %
GlobToLike(s) ==
    Replace(Replace(Replace(Replace(s, "\\", <<"\\", "\\">>),
                            "%", <<"\\", "%">>),
                    "_", <<"\\", "_">>),
            "*", <<"%">>)

\* SQL:  s LIKE p ESCAPE '\'
RECURSIVE Like(_, _)
Like(s, p) ==
    IF p = <<>> THEN s = <<>>
    ELSE IF Head(p) = "\\" /\ Len(p) >= 2
         THEN s # <<>> /\ Head(s) = p[2] /\ Like(Tail(s), Tail(Tail(p)))
    ELSE IF Head(p) = "%"
         THEN Like(s, Tail(p)) \/ (s # <<>> /\ Like(Tail(s), p))
    ELSE IF Head(p) = "_"
         THEN s # <<>> /\ Like(Tail(s), Tail(p))
    ELSE s # <<>> /\ Head(s) = Head(p) /\ Like(Tail(s), Tail(p))

MaxOf(S) == IF S = {} THEN 0 ELSE CHOOSE x \in S : \A y \in S : y <= x

\* ------------------------------------------------------------------- state
VARIABLES
    emails,     \* emails_raw joined with emails_parsed; never written by the gateway
    queue,      \* committed rows of table queue
    nextId,     \* next value of the queue id sequence
    mappings,   \* committed rows of triage_email_mappings
    signals,    \* committed rows of worker_signals
    jobs,       \* committed rows of backfill_jobs
    used,       \* number of connections checked out of the pool
    fs,         \* the token file's directory: names, inodes and their content
    issued,     \* session cookies the gateway has signed and sent
    writes,     \* per OAuth state, the token writes it has authorised
    slot        \* per in-flight request: handler, position, locals, response

\* the connection pool, and the token file with the OAuth sessions
poolVars == <<used>>
oauthVars == <<fs, issued, writes>>

vars == <<emails, queue, nextId, mappings, signals, jobs, used, fs, issued, writes, slot>>

\* op: the handler; pc: its position; conn: a pool connection is held; fd,
\* rec: the temp file's open inode and the record to save; cookie, state: the
\* session and the state parameter of an OAuth request; err: the exception
\* that ended the handler; req: the filters, window and priority of
\* an enqueue request as received; q, sel, ins, force: the enqueue
\* statement's queue, matched emails, emails passing the dedup clause, force
\* flag; job: the job or mapping id of the request; mtype, email: the mapping
\* key of the request; tx: mapping rows written in the open transaction and
\* not committed; resp, count: the response
NoReq == [gmail_ids |-> {}, senders |-> {}, label |-> NULL, days |-> 0, priority |-> {}]

IdleSlot ==
    [op |-> "idle", pc |-> "idle", conn |-> FALSE, fd |-> 0, rec |-> <<>>,
     cookie |-> NULL, state |-> NULL, err |-> NULL,
     req |-> NoReq, q |-> NULL, sel |-> {}, ins |-> {},
     force |-> FALSE, job |-> 0, mtype |-> <<>>, email |-> <<>>, tx |-> {},
     resp |-> 0, count |-> 0]

\* age is NOW() - created_at in days
Email1 == [id |-> 1, gmail_id |-> "g1", age |-> 1, label_ids |-> {"X"},
           from_addr |-> FooExampleFrom]

\* further rows of emails_raw: inside and outside the default window, with
\* and without label X, from the senders a pattern may or may not match
Email2 == [id |-> 2, gmail_id |-> "g2", age |-> 1, label_ids |-> {"X", "Y"},
           from_addr |-> AliceSpam]
Email3 == [id |-> 3, gmail_id |-> "g3", age |-> 10, label_ids |-> {"X"},
           from_addr |-> BobSpam]
Email4 == [id |-> 4, gmail_id |-> "g4", age |-> 1, label_ids |-> {},
           from_addr |-> AliceSpamEvil]
Email5 == [id |-> 5, gmail_id |-> "g5", age |-> 1, label_ids |-> {"Y"},
           from_addr |-> UnderscoreSpam]
Email6 == [id |-> 6, gmail_id |-> "g6", age |-> 1, label_ids |-> {"X"},
           from_addr |-> XSpam]
Email7 == [id |-> 7, gmail_id |-> "g7", age |-> 1, label_ids |-> {},
           from_addr |-> PercentSpam]
Email8 == [id |-> 8, gmail_id |-> "g8", age |-> 10, label_ids |-> {"Y"},
           from_addr |-> BackslashSpam]
Catalogue == { Email1, Email2, Email3, Email4, Email5, Email6, Email7, Email8 }

\* classifications(email_id, action_taken->>'label', classified_at rank)
Classifications ==
    { [email_id |-> 1, label |-> "X", at |-> 1],
      [email_id |-> 1, label |-> "Y", at |-> 2],
      [email_id |-> 2, label |-> "Y", at |-> 1],
      [email_id |-> 2, label |-> "X", at |-> 2],
      [email_id |-> 3, label |-> "X", at |-> 1] }

GmailOrder == <<"g1", "g2", "g3", "g4", "g5", "g6", "g7", "g8">>

\* mapping rows that exist in the store when the gateway starts: a live
\* fallback mapping and a soft-deleted priority mapping of the same address
Mapping1 == [id |-> 1, mapping_type |-> TypeFallback, email_address |-> FooExample,
             label |-> "L1", deleted |-> FALSE]
Mapping2 == [id |-> 2, mapping_type |-> TypePriority, email_address |-> FooExample,
             label |-> "L1", deleted |-> TRUE]

\* the token record: client credentials and the current token
TokenRecord(token) == [client_id |-> "cid", token |-> token]

\* the token file exists with a complete record; no temp file
InitFs == [token |-> 1, tmp |-> 0, data |-> << <<TokenRecord("t0")>> >>]

\* state values flow.authorization_url may generate, and the session without one
OAuthStates == {"s1", "s2"}
NoSession == NULL

\* sync backfill jobs the store holds: one waiting, one being worked on
Job1 == [id |-> 1, status |-> "pending"]
Job2 == [id |-> 2, status |-> "running"]

Init ==
    /\ emails = {Email1}
    /\ queue = {}
    /\ nextId = 1
    /\ mappings = {Mapping1, Mapping2}
    /\ signals = {}
    /\ jobs = {Job1, Job2}
    /\ used = 0
    /\ fs = InitFs
    /\ issued = {NoSession}
    /\ writes = [st \in OAuthStates |-> 0]
    /\ slot = [s \in Slots |-> IdleSlot]

\* the store holding any one to MaxEmails of the catalogue's emails
InitSel ==
    /\ emails \in { S \in SUBSET Catalogue : Cardinality(S) \in 1..MaxEmails }
    /\ queue = {}
    /\ nextId = 1
    /\ mappings = {Mapping1, Mapping2}
    /\ signals = {}
    /\ jobs = {Job1, Job2}
    /\ used = 0
    /\ fs = InitFs
    /\ issued = {NoSession}
    /\ writes = [st \in OAuthStates |-> 0]
    /\ slot = [s \in Slots |-> IdleSlot]

\* ------------------------------------------------------------ store helpers
\* payload->>'gmail_id'
PayloadGmail(r) == r.payload.gmail_id

\* the unique index named by the ON CONFLICT target of the mapping-change
\* insert: (queue_name, payload->>'gmail_id', status) WHERE status IN
\* ('pending', 'processing')
InIndex(r) == r.status \in NonTerminal
IndexKey(r) == <<r.queue_name, PayloadGmail(r), r.status>>
IndexConflict(q, r) ==
    /\ InIndex(r)
    /\ \E o \in q : o.id # r.id /\ InIndex(o) /\ IndexKey(o) = IndexKey(r)
UniqueOK(q) == \A r \in q : ~IndexConflict(q, r)

\* triage.py NOT EXISTS: dedup on payload->>'gmail_id'
ExistsNonTerminalPayload(q, qn, g) ==
    \E r \in q : r.queue_name = qn /\ PayloadGmail(r) = g /\ r.status \in NonTerminal

\* backfill.py NOT EXISTS: dedup on the gmail_id column
ExistsNonTerminalColumn(q, qn, g) ==
    \E r \in q : r.queue_name = qn /\ r.gmail_id = g /\ r.status \in NonTerminal

\* a payload built without the gmail id
NewRowWithoutGmailId(id, qn, col, g, tag, prio) ==
    [id |-> id, queue_name |-> qn, gmail_id |-> col,
     payload |-> [gmail_id |-> NULL, tag |-> tag],
     priority |-> prio, status |-> "pending", error |-> NULL, attempts |-> 0]

NewRow(id, qn, col, g, tag, prio) ==
    [id |-> id, queue_name |-> qn, gmail_id |-> col,
     payload |-> [gmail_id |-> g, tag |-> tag],
     priority |-> prio, status |-> "pending", error |-> NULL, attempts |-> 0]

\* the rows one INSERT ... SELECT adds for the gmail ids gs, ids drawn from the
\* sequence in gmail_id order; withCol says whether the statement names the
\* gmail_id column (backfill) or leaves it to its default (rerun)
RowsFor(nid, qn, withCol, gs, tag, prio) ==
    LET In(g) == g \in gs
        order == SelectSeq(GmailOrder, In)
    IN { NewRow(nid + i - 1, qn, IF withCol THEN order[i] ELSE NULL, order[i], tag, prio)
         : i \in 1..Len(order) }

\* gmail ids of gs whose new pending row would hit the unique index
Conflicting(q, qn, gs) ==
    { g \in gs : \E o \in q : InIndex(o) /\ IndexKey(o) = <<qn, g, "pending">> }

SetRow(q, id, new) == { IF r.id = id THEN new ELSE r : r \in q }

\* ------------------------------------------------------------ triage rerun
RerunIdInputs == { {}, {"g1"}, {"g9"} }
\* absent, one pattern, or a list holding only an empty string
RerunSenderInputs ==
    { {}, {StarExample}, {BarExample}, {<<>>},
      {StarSpam}, {UnderscoreSpam}, {PercentSpam}, {BackslashSpam} }
LabelInputs == { NULL, "X" }
DaysInputs == { DefaultDays, 30 }
\* the priority key of the request body: absent, or present with a value
PriorityInputs == { {}, {5} }

\* senders = [s for s in senders_raw or [] if s]
NonEmpty(senders_raw) == { p \in senders_raw : p # <<>> }

\* a default that ignores the caller's value
PriorityOrDefaultOnly(given, default) == default

\* data.get("priority", default)
PriorityOr(given, default) == IF given = {} THEN default ELSE CHOOSE p \in given : TRUE

\* the SELECT of the three filter variants, before the dedup clause
RerunMatched(src, gmail_ids, senders, label, days) ==
    IF gmail_ids # {}
    THEN { e.gmail_id : e \in { x \in src : x.gmail_id \in gmail_ids } }
    ELSE IF senders # {}
    THEN { e.gmail_id : e \in { x \in src :
               /\ x.age <= days
               /\ \E p \in senders : Like(x.from_addr, GlobToLike(p)) } }
    ELSE { e.gmail_id : e \in { x \in src :
               /\ x.age <= days
               /\ \E c \in Classifications : c.email_id = x.id /\ c.label = label } }

\* "Avoid duplicates unless force"
RerunDedup(q, matched, force) ==
    IF force THEN matched
    ELSE { g \in matched : ~ExistsNonTerminalPayload(q, "triage", g) }

\* a check that only asks for some filter
FiltersProvidedAtMostOne(gmail_ids, senders, label) ==
    IF gmail_ids # {} \/ label # NULL \/ senders # {} THEN 1 ELSE 0

FiltersProvided(gmail_ids, senders, label) ==
    (IF gmail_ids # {} THEN 1 ELSE 0) + (IF label # NULL THEN 1 ELSE 0)
        + (IF senders # {} THEN 1 ELSE 0)

\* request validation and the statement's snapshot (SELECT ... NOT EXISTS)
RerunStart(s) ==
    /\ slot[s].pc = "idle"
    /\ \E gmail_ids \in RerunIdInputs, senders_raw \in RerunSenderInputs,
          label \in LabelInputs, days \in DaysInputs, force \in BOOLEAN,
          priority \in PriorityInputs :
         LET senders == NonEmpty(senders_raw)
             matched == RerunMatched(emails, gmail_ids, senders, label, days)
             req == [gmail_ids |-> gmail_ids, senders |-> senders_raw, label |-> label,
                     days |-> days, priority |-> priority]
         IN IF FiltersProvided(gmail_ids, senders, label) # 1
            THEN slot' = [slot EXCEPT ![s] =
                     [IdleSlot EXCEPT !.op = "rerun", !.pc = "done", !.req = req,
                                      !.force = force, !.resp = 400]]
            ELSE slot' = [slot EXCEPT ![s] =
                     [IdleSlot EXCEPT !.op = "rerun", !.pc = "insert", !.req = req,
                                      !.q = "triage",
                                      !.sel = matched,
                                      !.ins = RerunDedup(queue, matched, force),
                                      !.force = force]]
    /\ UNCHANGED <<emails, queue, nextId, mappings, signals, jobs, poolVars, oauthVars>>

\* the insert with ON CONFLICT DO NOTHING, the commit and the response
RerunInsert(s) ==
    /\ slot[s].op = "rerun" /\ slot[s].pc = "insert"
    /\ LET gs == slot[s].ins \ Conflicting(queue, "triage", slot[s].ins)
           rows == RowsFor(nextId, "triage", FALSE, gs, "rerun",
                           PriorityOr(slot[s].req.priority, DefaultRerunPriority))
       IN /\ nextId + Cardinality(rows) - 1 <= MaxRows
          /\ queue' = queue \cup rows
          /\ nextId' = nextId + Cardinality(rows)
          /\ slot' = [slot EXCEPT ![s].pc = "done", ![s].resp = 200,
                                  ![s].count = Cardinality(rows)]
    /\ UNCHANGED <<emails, mappings, signals, jobs, poolVars, oauthVars>>

\* ----------------------------------------------------------------- backfill
BackfillQueueInputs == { "triage", "parse", "bogus" }

BackfillMatched(src, label, days) ==
    { e.gmail_id : e \in { x \in src :
          /\ x.age <= days
          /\ (label # NULL => label \in x.label_ids) } }

BackfillDedup(q, qn, matched) ==
    { g \in matched : ~ExistsNonTerminalColumn(q, qn, g) }

BackfillStart(s) ==
    /\ slot[s].pc = "idle"
    /\ \E qn \in BackfillQueueInputs, label \in LabelInputs, days \in DaysInputs,
          priority \in PriorityInputs :
         LET matched == BackfillMatched(emails, label, days)
             req == [NoReq EXCEPT !.label = label, !.days = days, !.priority = priority]
         IN IF qn \notin QueueNames
            THEN slot' = [slot EXCEPT ![s] =
                     [IdleSlot EXCEPT !.op = "backfill", !.pc = "done", !.req = req,
                                      !.resp = 400]]
            ELSE slot' = [slot EXCEPT ![s] =
                     [IdleSlot EXCEPT !.op = "backfill", !.pc = "insert", !.req = req,
                                      !.q = qn,
                                      !.sel = matched,
                                      !.ins = BackfillDedup(queue, qn, matched)]]
    /\ UNCHANGED <<emails, queue, nextId, mappings, signals, jobs, poolVars, oauthVars>>

\* the insert has no ON CONFLICT clause: a unique violation aborts the whole
\* statement and the handler, which has no except clause, answers 500
BackfillInsert(s) ==
    /\ slot[s].op = "backfill" /\ slot[s].pc = "insert"
    /\ LET rows == RowsFor(nextId, slot[s].q, TRUE, slot[s].ins, "backfill",
                           PriorityOr(slot[s].req.priority, DefaultBackfillPriority))
       IN IF Conflicting(queue, slot[s].q, slot[s].ins) # {}
          THEN /\ slot' = [slot EXCEPT ![s].pc = "done", ![s].resp = 500]
               /\ UNCHANGED <<queue, nextId>>
          ELSE /\ nextId + Cardinality(rows) - 1 <= MaxRows
               /\ queue' = queue \cup rows
               /\ nextId' = nextId + Cardinality(rows)
               /\ slot' = [slot EXCEPT ![s].pc = "done", ![s].resp = 200,
                                       ![s].count = Cardinality(rows)]
    /\ UNCHANGED <<emails, mappings, signals, jobs, poolVars, oauthVars>>

\* ---------------------------------------------------------- external worker
\* pending -> processing -> completed | failed; a take that would put a second
\* processing row into the unique index is rejected by the store
WorkerTake ==
    \E r \in queue :
        /\ r.status = "pending"
        /\ LET new == [r EXCEPT !.status = "processing", !.attempts = r.attempts + 1]
           IN /\ UniqueOK(SetRow(queue, r.id, new))
              /\ queue' = SetRow(queue, r.id, new)
        /\ UNCHANGED <<emails, nextId, mappings, signals, jobs, poolVars, oauthVars, slot>>

WorkerComplete ==
    \E r \in queue :
        /\ r.status = "processing"
        /\ queue' = SetRow(queue, r.id, [r EXCEPT !.status = "completed"])
        /\ UNCHANGED <<emails, nextId, mappings, signals, jobs, poolVars, oauthVars, slot>>

WorkerFail ==
    \E r \in queue :
        /\ r.status = "processing"
        /\ queue' = SetRow(queue, r.id, [r EXCEPT !.status = "failed", !.error = "err"])
        /\ UNCHANGED <<emails, nextId, mappings, signals, jobs, poolVars, oauthVars, slot>>

\* the response has been sent; the slot is free for the next request
Finish(s) ==
    /\ slot[s].pc = "done"
    /\ slot' = [slot EXCEPT ![s] = IdleSlot]
    /\ UNCHANGED <<emails, queue, nextId, mappings, signals, jobs, poolVars, oauthVars>>

\* ------------------------------------------------------ dead-letter recovery
JobIdInputs == 1..(MaxRows + 1)
QueueParamInputs == { NULL, "triage", "parse" }

\* SET status = 'pending', error = NULL, attempts = 0
RetryRow(r) == [r EXCEPT !.status = "pending", !.error = NULL, !.attempts = 0]

\* a retry that puts a fresh copy of the job on the queue
RetryStatementReenqueue(q, job_id) ==
    q \cup { [RetryRow(r) EXCEPT !.id = MaxOf({ x.id : x \in q }) + 1]
             : r \in { x \in q : x.id = job_id } }

\* UPDATE queue SET ... WHERE id = %s
RetryStatement(q, job_id) == { IF r.id = job_id THEN RetryRow(r) ELSE r : r \in q }

\* DELETE FROM queue WHERE id = %s
DeleteStatement(q, job_id) == { r \in q : r.id # job_id }

\* UPDATE queue SET ... WHERE status = 'failed' AND queue_name = %s
RetryAllTargets(q, qn) == { r \in q : r.status = "failed" /\ r.queue_name = qn }
RetryAllStatement(q, qn) ==
    { IF r \in RetryAllTargets(q, qn) THEN RetryRow(r) ELSE r : r \in q }

\* UPDATE queue SET status = 'cancelled' WHERE queue_name = %s AND priority < 0
\* AND status = 'pending'
CancelTargets(q, qn) ==
    { r \in q : r.queue_name = qn /\ r.priority < 0 /\ r.status = "pending" }
CancelStatement(q, qn) ==
    { IF r \in CancelTargets(q, qn) THEN [r EXCEPT !.status = "cancelled"] ELSE r : r \in q }

\* SELECT ... WHERE id = %s, then the two guards of retry_failed
RetryCheck(s) ==
    /\ slot[s].pc = "idle"
    /\ \E job_id \in JobIdInputs :
         LET job == { r \in queue : r.id = job_id }
         IN IF job = {}
            THEN slot' = [slot EXCEPT ![s] =
                     [IdleSlot EXCEPT !.op = "retry", !.pc = "done", !.job = job_id,
                                      !.resp = 404]]
            ELSE IF \E r \in job : r.status # "failed"
            THEN slot' = [slot EXCEPT ![s] =
                     [IdleSlot EXCEPT !.op = "retry", !.pc = "done", !.job = job_id,
                                      !.resp = 400]]
            ELSE slot' = [slot EXCEPT ![s] =
                     [IdleSlot EXCEPT !.op = "retry", !.pc = "update", !.job = job_id]]
    /\ UNCHANGED <<emails, queue, nextId, mappings, signals, jobs, poolVars, oauthVars>>

\* execute_update of the UPDATE: a unique violation raises out of the handler,
\* which has no except clause (500); otherwise commit and 200
RetryUpdate(s) ==
    /\ slot[s].op = "retry" /\ slot[s].pc = "update"
    /\ LET new == RetryStatement(queue, slot[s].job)
       IN IF UniqueOK(new)
          THEN /\ queue' = new
               /\ slot' = [slot EXCEPT ![s].pc = "done", ![s].resp = 200]
          ELSE /\ queue' = queue
               /\ slot' = [slot EXCEPT ![s].pc = "done", ![s].resp = 500]
    /\ UNCHANGED <<emails, nextId, mappings, signals, jobs, poolVars, oauthVars>>

\* SELECT ... WHERE id = %s, then the two guards of delete_failed
DeleteCheck(s) ==
    /\ slot[s].pc = "idle"
    /\ \E job_id \in JobIdInputs :
         LET job == { r \in queue : r.id = job_id }
         IN IF job = {}
            THEN slot' = [slot EXCEPT ![s] =
                     [IdleSlot EXCEPT !.op = "delete", !.pc = "done", !.job = job_id,
                                      !.resp = 404]]
            ELSE IF \E r \in job : r.status # "failed"
            THEN slot' = [slot EXCEPT ![s] =
                     [IdleSlot EXCEPT !.op = "delete", !.pc = "done", !.job = job_id,
                                      !.resp = 400]]
            ELSE slot' = [slot EXCEPT ![s] =
                     [IdleSlot EXCEPT !.op = "delete", !.pc = "update", !.job = job_id]]
    /\ UNCHANGED <<emails, queue, nextId, mappings, signals, jobs, poolVars, oauthVars>>

DeleteExec(s) ==
    /\ slot[s].op = "delete" /\ slot[s].pc = "update"
    /\ queue' = DeleteStatement(queue, slot[s].job)
    /\ slot' = [slot EXCEPT ![s].pc = "done", ![s].resp = 200]
    /\ UNCHANGED <<emails, nextId, mappings, signals, jobs, poolVars, oauthVars>>

RetryAll(s) ==
    /\ slot[s].pc = "idle"
    /\ \E qn \in QueueParamInputs :
         IF qn = NULL
         THEN /\ slot' = [slot EXCEPT ![s] =
                      [IdleSlot EXCEPT !.op = "retry_all", !.pc = "done", !.resp = 400]]
              /\ queue' = queue
         ELSE LET new == RetryAllStatement(queue, qn)
              IN IF UniqueOK(new)
                 THEN /\ queue' = new
                      /\ slot' = [slot EXCEPT ![s] =
                              [IdleSlot EXCEPT !.op = "retry_all", !.pc = "done", !.q = qn,
                                               !.resp = 200,
                                               !.count = Cardinality(RetryAllTargets(queue, qn))]]
                 ELSE /\ queue' = queue
                      /\ slot' = [slot EXCEPT ![s] =
                              [IdleSlot EXCEPT !.op = "retry_all", !.pc = "done", !.q = qn,
                                               !.resp = 500]]
    /\ UNCHANGED <<emails, nextId, mappings, signals, jobs, poolVars, oauthVars>>

CancelBackfill(s) ==
    /\ slot[s].pc = "idle"
    /\ \E qn \in QueueParamInputs :
         IF qn = NULL
         THEN /\ slot' = [slot EXCEPT ![s] =
                      [IdleSlot EXCEPT !.op = "cancel", !.pc = "done", !.resp = 400]]
              /\ queue' = queue
         ELSE /\ queue' = CancelStatement(queue, qn)
              /\ slot' = [slot EXCEPT ![s] =
                      [IdleSlot EXCEPT !.op = "cancel", !.pc = "done", !.q = qn,
                                       !.resp = 200,
                                       !.count = Cardinality(CancelTargets(queue, qn))]]
    /\ UNCHANGED <<emails, nextId, mappings, signals, jobs, poolVars, oauthVars>>

\* ------------------------------------------------------------ mapping CRUD
MappingTypeInputs == { TypePriority, TypeFallback, TypeFallbackRaw, TypeBogus }
MappingEmailInputs == { FooExample, FooExampleRaw }
MappingIdInputs == { 1, 2, 3 }
AddLabel == "L1"
UpdateLabel == "L2"
MappingOps == { "add", "update", "delete_mapping" }
SignalRow == [signal_type |-> "mappings_reload", target_worker |-> "triage"]

\* the pool is built from the DSN alone and the mapping handlers call
\* conn.cursor() without a cursor_factory: fetchone() returns a tuple
CursorFactory == "tuple"

\* row["column"] on a fetched row raises TypeError unless the row is a dict
SubscriptByNameRaises(factory) == factory # "RealDictCursor"

\* email_raw.lower().strip()
NormalizeEmail(email_raw) == Strip(Lower(email_raw))

\* mapping_type.strip() in ("priority", "fallback")
ValidType(mapping_type) == Strip(mapping_type) \in { TypePriority, TypeFallback }

\* arbiter of ON CONFLICT (mapping_type, email_address) WHERE deleted_at IS NULL
\* the ON CONFLICT arbiter never reporting a conflict
MappingConflictNever(ms, mapping_type, email) == FALSE

MappingConflict(ms, mapping_type, email) ==
    \E m \in ms : ~m.deleted /\ m.mapping_type = mapping_type /\ m.email_address = email

\* a row that another open transaction has written (inserted, updated or
\* soft-deleted) and not committed: a writer of the same row or key waits
MappingLocked(s, id, mapping_type, email) ==
    \E t \in Slots \ {s} : \E m \in slot[t].tx :
        \/ (id # 0 /\ m.id = id)
        \/ (~m.deleted /\ m.mapping_type = mapping_type /\ m.email_address = email)

\* GET /mappings?type=...: the rows the list query returns
ListMappings(ms, mapping_type) ==
    { m \in ms : ~m.deleted /\ (mapping_type # NULL => m.mapping_type = mapping_type) }

\* WHERE LOWER(ep.from_addr) = LOWER(%s), no date filter
SenderMatched(src, email_address) ==
    { e.gmail_id : e \in { x \in src : Lower(x.from_addr) = Lower(email_address) } }

\* the committed mappings table with the transaction's writes applied
ApplyMapping(ms, written) ==
    { m \in ms : \A w \in written : w.id # m.id }
        \cup { IF w.id = 0 THEN [w EXCEPT !.id = MaxOf({m.id : m \in ms}) + 1] ELSE w
               : w \in written }

\* a context exit that commits whatever the transaction wrote
ContextExitCommits(ms, written, exc) == ApplyMapping(ms, written)

\* ConnectionContext.__exit__: rollback when an exception leaves the scope,
\* then the connection goes back to the pool, which rolls back whatever
\* transaction is still open; nothing of the transaction reaches the table
ContextExit(ms, written, exc) == ms

\* validation, then INSERT ... ON CONFLICT DO NOTHING RETURNING id inside the
\* transaction; no row returned is answered 409 from inside the connection
\* scope
AddStart(s) ==
    /\ slot[s].pc = "idle"
    /\ \E mapping_type \in MappingTypeInputs, email_raw \in MappingEmailInputs,
          created_by \in BOOLEAN :
         LET email == NormalizeEmail(email_raw)
             row == [id |-> 0, mapping_type |-> mapping_type, email_address |-> email,
                     label |-> AddLabel, deleted |-> FALSE]
         IN IF ~created_by \/ ~ValidType(mapping_type)
            THEN slot' = [slot EXCEPT ![s] =
                     [IdleSlot EXCEPT !.op = "add", !.pc = "done", !.resp = 400]]
            ELSE /\ ~MappingLocked(s, 0, mapping_type, email)
                 /\ IF MappingConflict(mappings, mapping_type, email)
                    THEN slot' = [slot EXCEPT ![s] =
                             [IdleSlot EXCEPT !.op = "add", !.pc = "done", !.resp = 409,
                                              !.mtype = mapping_type, !.email = email]]
                    ELSE slot' = [slot EXCEPT ![s] =
                             [IdleSlot EXCEPT !.op = "add", !.pc = "fetch",
                                              !.mtype = mapping_type, !.email = email,
                                              !.tx = {row}]]
    /\ mappings' = ContextExit(mappings, {}, FALSE)
    /\ UNCHANGED <<emails, queue, nextId, signals, jobs, poolVars, oauthVars>>

\* UPDATE ... WHERE id = %s AND deleted_at IS NULL RETURNING *
UpdateStart(s) ==
    /\ slot[s].pc = "idle"
    /\ \E mapping_id \in MappingIdInputs, updated_by \in BOOLEAN, has_label \in BOOLEAN :
         IF ~updated_by \/ ~has_label
         THEN slot' = [slot EXCEPT ![s] =
                  [IdleSlot EXCEPT !.op = "update", !.pc = "done", !.resp = 400]]
         ELSE /\ ~MappingLocked(s, mapping_id, <<>>, <<>>)
              /\ IF \E m \in mappings : m.id = mapping_id /\ ~m.deleted
                 THEN LET m == CHOOSE x \in mappings : x.id = mapping_id
                      IN slot' = [slot EXCEPT ![s] =
                             [IdleSlot EXCEPT !.op = "update", !.pc = "fetch",
                                              !.job = mapping_id,
                                              !.mtype = m.mapping_type,
                                              !.email = m.email_address,
                                              !.tx = {[m EXCEPT !.label = UpdateLabel]}]]
                 ELSE slot' = [slot EXCEPT ![s] =
                          [IdleSlot EXCEPT !.op = "update", !.pc = "done",
                                           !.job = mapping_id, !.resp = 404]]
    /\ mappings' = ContextExit(mappings, {}, FALSE)
    /\ UNCHANGED <<emails, queue, nextId, signals, jobs, poolVars, oauthVars>>

\* UPDATE ... SET deleted_at = NOW() WHERE id = %s AND deleted_at IS NULL
\* RETURNING email_address
DeleteMappingStart(s) ==
    /\ slot[s].pc = "idle"
    /\ \E mapping_id \in MappingIdInputs, updated_by \in BOOLEAN :
         IF ~updated_by
         THEN slot' = [slot EXCEPT ![s] =
                  [IdleSlot EXCEPT !.op = "delete_mapping", !.pc = "done", !.resp = 400]]
         ELSE /\ ~MappingLocked(s, mapping_id, <<>>, <<>>)
              /\ IF \E m \in mappings : m.id = mapping_id /\ ~m.deleted
                 THEN LET m == CHOOSE x \in mappings : x.id = mapping_id
                      IN slot' = [slot EXCEPT ![s] =
                             [IdleSlot EXCEPT !.op = "delete_mapping", !.pc = "fetch",
                                              !.job = mapping_id,
                                              !.mtype = m.mapping_type,
                                              !.email = m.email_address,
                                              !.tx = {[m EXCEPT !.deleted = TRUE]}]]
                 ELSE slot' = [slot EXCEPT ![s] =
                          [IdleSlot EXCEPT !.op = "delete_mapping", !.pc = "done",
                                           !.job = mapping_id, !.resp = 404]]
    /\ mappings' = ContextExit(mappings, {}, FALSE)
    /\ UNCHANGED <<emails, queue, nextId, signals, jobs, poolVars, oauthVars>>

\* the rest of the handler after fetchone() returned a row: the row is
\* subscripted by column name (result["id"], updated["email_address"],
\* row["email_address"]).  On a tuple row that raises; the exception leaves the
\* connection scope and the handler's except clause answers 500.  Otherwise
\* the side effects run in the same transaction and conn.commit() publishes
\* the mapping write, the re-enqueued rows and the signal together.
MappingFetch(s) ==
    /\ slot[s].op \in MappingOps /\ slot[s].pc = "fetch"
    /\ IF SubscriptByNameRaises(CursorFactory)
       THEN /\ mappings' = ContextExit(mappings, slot[s].tx, TRUE)
            /\ slot' = [slot EXCEPT ![s].pc = "done", ![s].resp = 500, ![s].tx = {}]
            /\ UNCHANGED <<queue, nextId, signals>>
       ELSE LET matched == SenderMatched(emails, slot[s].email)
                gs == matched \ Conflicting(queue, "triage", matched)
                rows == RowsFor(nextId, "triage", FALSE, gs, "mapping_change",
                                MAPPING_CHANGE_REPROCESS_PRIORITY)
            IN /\ nextId + Cardinality(rows) - 1 <= MaxRows
               /\ mappings' = ApplyMapping(mappings, slot[s].tx)
               /\ queue' = queue \cup rows
               /\ nextId' = nextId + Cardinality(rows)
               /\ signals' = signals \cup {SignalRow}
               /\ slot' = [slot EXCEPT ![s].pc = "done", ![s].tx = {},
                                       ![s].sel = matched,
                                       ![s].count = Cardinality(rows),
                                       ![s].resp = IF slot[s].op = "add" THEN 201 ELSE 200]
    /\ UNCHANGED <<emails, jobs, poolVars, oauthVars>>


\* ------------------------------------------------- sync backfill job cancel
SyncJobIdInputs == { 1, 2, 3, 9 }
SyncTerminal == { "completed", "failed", "cancelled" }

\* an UPDATE that matches the job whatever its status
CancelSyncTargetsAnyStatus(js, job_id) == { j \in js : j.id = job_id }

\* WHERE id = %s AND status IN ('pending', 'running')
CancelSyncTargets(js, job_id) ==
    { j \in js : j.id = job_id /\ j.status \in {"pending", "running"} }

\* UPDATE backfill_jobs SET status = 'cancelled' ... RETURNING id, status, run
\* through execute_query: the statement takes effect inside the transaction,
\* its RETURNING rows reach the handler, and the connection goes back to the
\* pool without a commit.  A returned row is answered 200; none leads to the
\* existence check.
CancelSyncUpdate(s) ==
    /\ slot[s].pc = "idle"
    /\ \E job_id \in SyncJobIdInputs :
         LET written == { [j EXCEPT !.status = "cancelled"]
                          : j \in CancelSyncTargets(jobs, job_id) }
         IN /\ jobs' = ContextExit(jobs, written, FALSE)
            /\ slot' = [slot EXCEPT ![s] =
                   IF written # {}
                   THEN [IdleSlot EXCEPT !.op = "sync_cancel", !.pc = "done",
                                         !.job = job_id, !.resp = 200,
                                         !.count = Cardinality(written)]
                   ELSE [IdleSlot EXCEPT !.op = "sync_cancel", !.pc = "check",
                                         !.job = job_id]]
    /\ UNCHANGED <<emails, queue, nextId, mappings, signals, poolVars, oauthVars>>

\* SELECT id, status FROM backfill_jobs WHERE id = %s: 404 without a row, 400
\* with one
CancelSyncCheck(s) ==
    /\ slot[s].op = "sync_cancel" /\ slot[s].pc = "check"
    /\ slot' = [slot EXCEPT ![s].pc = "done",
                            ![s].resp = IF \E j \in jobs : j.id = slot[s].job
                                        THEN 400 ELSE 404]
    /\ UNCHANGED <<emails, queue, nextId, mappings, signals, jobs, poolVars, oauthVars>>

\* the external sync worker: pending -> running -> completed | failed
SyncWorkerStart ==
    \E j \in jobs :
        /\ j.status = "pending"
        /\ jobs' = (jobs \ {j}) \cup {[j EXCEPT !.status = "running"]}
        /\ UNCHANGED <<emails, queue, nextId, mappings, signals, poolVars, oauthVars, slot>>

SyncWorkerComplete ==
    \E j \in jobs :
        /\ j.status = "running"
        /\ jobs' = (jobs \ {j}) \cup {[j EXCEPT !.status = "completed"]}
        /\ UNCHANGED <<emails, queue, nextId, mappings, signals, poolVars, oauthVars, slot>>

SyncWorkerFail ==
    \E j \in jobs :
        /\ j.status = "running"
        /\ jobs' = (jobs \ {j}) \cup {[j EXCEPT !.status = "failed"]}
        /\ UNCHANGED <<emails, queue, nextId, mappings, signals, poolVars, oauthVars, slot>>

\* the days and after keys of the request body: absent or present; -1 and
\* "bogus" are the values the validation refuses
SyncDaysInputs == { {}, {7}, {-1} }
SyncAfterInputs == { NULL, "2024-01-01", "bogus" }

\* datetime.strptime(str(after), "%Y-%m-%d") succeeds
ValidDate(after) == after = "2024-01-01"

\* POST /sync/backfill: validation, then INSERT INTO backfill_jobs ...
\* RETURNING through execute_query; the returned row is answered 201 with its
\* id, and the connection goes back to the pool without a commit
TriggerSync(s) ==
    /\ slot[s].pc = "idle"
    /\ \E days \in SyncDaysInputs, after \in SyncAfterInputs :
         LET bad == \/ (days # {} /\ after # NULL)
                    \/ (days = {} /\ after = NULL)
                    \/ (days # {} /\ \E d \in days : d < 1)
                    \/ (days = {} /\ ~ValidDate(after))
             id == MaxOf({ j.id : j \in jobs }) + 1
             written == { [id |-> id, status |-> "pending"] }
         IN IF bad
            THEN /\ jobs' = jobs
                 /\ slot' = [slot EXCEPT ![s] =
                        [IdleSlot EXCEPT !.op = "sync_trigger", !.pc = "done",
                                         !.resp = 400]]
            ELSE /\ jobs' = ContextExit(jobs, written, FALSE)
                 /\ slot' = [slot EXCEPT ![s] =
                        [IdleSlot EXCEPT !.op = "sync_trigger", !.pc = "done",
                                         !.job = id, !.resp = 201]]
    /\ UNCHANGED <<emails, queue, nextId, mappings, signals, poolVars, oauthVars>>

\* GET /sync/backfill/<job_id>
GetSyncJob(s) ==
    /\ slot[s].pc = "idle"
    /\ \E job_id \in SyncJobIdInputs :
         slot' = [slot EXCEPT ![s] =
             [IdleSlot EXCEPT !.op = "sync_get", !.pc = "done", !.job = job_id,
                              !.resp = IF \E j \in jobs : j.id = job_id
                                       THEN 200 ELSE 404]]
    /\ UNCHANGED <<emails, queue, nextId, mappings, signals, jobs, poolVars, oauthVars>>

\* ---------------------------------------------------------- connection pool
\* ThreadedConnectionPool(minconn, maxconn, dsn).getconn(): a free or a new
\* connection while fewer than maxconn are checked out, else PoolError at once
PoolExhausted == used >= MaxConn

\* the helpers and handlers that open a connection scope
ScopeOps == { "execute_query", "execute_update", "mapping_scope" }
\* the ways control leaves the scope: the end of the block, a return from
\* inside it, an exception
ScopeExits == { "return", "early_return", "raise" }

\* put_connection: _pool.putconn(conn)
PutConnection(n) == n - 1

\* ConnectionContext.__enter__: get_connection(); a PoolError leaves the
\* caller as an exception (500)
ScopeEnter(s) ==
    /\ slot[s].pc = "idle"
    /\ \E op \in ScopeOps :
         IF PoolExhausted
         THEN /\ used' = used
              /\ slot' = [slot EXCEPT ![s] =
                     [IdleSlot EXCEPT !.op = op, !.pc = "done", !.resp = 500]]
         ELSE /\ used' = used + 1
              /\ slot' = [slot EXCEPT ![s] =
                     [IdleSlot EXCEPT !.op = op, !.pc = "scope", !.conn = TRUE]]
    /\ UNCHANGED <<emails, queue, nextId, mappings, signals, jobs, oauthVars>>

\* ConnectionContext.__exit__: rollback on an exception, then put_connection
\* on every path; only the mapping handlers return from inside the scope
ScopeExit(s) ==
    /\ slot[s].op \in ScopeOps /\ slot[s].pc = "scope"
    /\ \E exit \in ScopeExits :
         /\ exit = "early_return" => slot[s].op = "mapping_scope"
         /\ used' = PutConnection(used)
         /\ slot' = [slot EXCEPT ![s].pc = "done", ![s].conn = FALSE,
                                 ![s].resp = CASE exit = "return" -> 200
                                               [] exit = "early_return" -> 409
                                               [] OTHER -> 500]
    /\ UNCHANGED <<emails, queue, nextId, mappings, signals, jobs, oauthVars>>

\* check_postgres: get_connection(), SELECT 1, and the function returns
\* without put_connection; a PoolError is caught and reported as unhealthy
CheckPostgres(s) ==
    /\ slot[s].pc = "idle"
    /\ IF PoolExhausted
       THEN /\ used' = used
            /\ slot' = [slot EXCEPT ![s] =
                   [IdleSlot EXCEPT !.op = "check_postgres", !.pc = "done", !.resp = 503]]
       ELSE /\ used' = used + 1
            /\ slot' = [slot EXCEPT ![s] =
                   [IdleSlot EXCEPT !.op = "check_postgres", !.pc = "done", !.resp = 200]]
    /\ UNCHANGED <<emails, queue, nextId, mappings, signals, jobs, oauthVars>>

\* -------------------------------------------------------------- OAuth token
\* content of the file the name token_path resolves to; <<>> is a file that
\* was created or truncated and not yet written
TokenContent == fs.data[fs.token]

\* json.load succeeds
Parses(content) == content # <<>>

OAuthOps == { "refresh", "callback" }
CallbackStateInputs == OAuthStates \cup {NULL}

\* GET /oauth/status: reads and parses the token file
Status(s) ==
    /\ slot[s].pc = "idle"
    /\ slot' = [slot EXCEPT ![s] =
           IF Parses(TokenContent)
           THEN [IdleSlot EXCEPT !.op = "status", !.pc = "done", !.resp = 200]
           ELSE [IdleSlot EXCEPT !.op = "status", !.pc = "done", !.resp = 500,
                                 !.err = "JSONDecodeError"]]
    /\ UNCHANGED <<emails, queue, nextId, mappings, signals, jobs, poolVars, oauthVars>>

\* POST /oauth/refresh up to _save_token: read the token file, then
\* creds.refresh(Request()), which the token endpoint accepts or refuses
RefreshStart(s) ==
    /\ slot[s].pc = "idle"
    /\ \E accepted \in BOOLEAN :
         slot' = [slot EXCEPT ![s] =
             IF ~Parses(TokenContent)
             THEN [IdleSlot EXCEPT !.op = "refresh", !.pc = "done", !.resp = 500,
                                   !.err = "JSONDecodeError"]
             ELSE IF ~accepted
             THEN [IdleSlot EXCEPT !.op = "refresh", !.pc = "done", !.resp = 400]
             ELSE [IdleSlot EXCEPT !.op = "refresh", !.pc = "load",
                                   !.rec = <<TokenRecord("refreshed")>>]]
    /\ UNCHANGED <<emails, queue, nextId, mappings, signals, jobs, poolVars, oauthVars>>

\* GET /oauth/start: load the client config, generate a state, store it in
\* the session; the session travels in the signed cookie of the response
Start(s) ==
    /\ slot[s].pc = "idle"
    /\ IF ~Parses(TokenContent)
       THEN /\ slot' = [slot EXCEPT ![s] =
                   [IdleSlot EXCEPT !.op = "start", !.pc = "done", !.resp = 500,
                                    !.err = "JSONDecodeError"]]
            /\ issued' = issued
       ELSE \E state \in OAuthStates :
              /\ slot' = [slot EXCEPT ![s] =
                     [IdleSlot EXCEPT !.op = "start", !.pc = "done", !.resp = 302,
                                      !.cookie = state]]
              /\ issued' = issued \cup {state}
    /\ UNCHANGED <<emails, queue, nextId, mappings, signals, jobs, poolVars, fs, writes>>

\* GET /oauth/callback up to _save_token: the request carries a cookie the
\* gateway signed at some time and a state parameter; after the comparison the
\* state is popped from the session of this response, the client config is
\* loaded and the code is exchanged, which the token endpoint accepts or
\* refuses
CallbackStart(s) ==
    /\ slot[s].pc = "idle"
    /\ \E stored_state \in issued, callback_state \in CallbackStateInputs,
          accepted \in BOOLEAN :
         LET base == [IdleSlot EXCEPT !.op = "callback", !.cookie = stored_state,
                                      !.state = callback_state]
         IN IF callback_state = NULL \/ stored_state = NULL
               \/ callback_state # stored_state
            THEN slot' = [slot EXCEPT ![s] = [base EXCEPT !.pc = "done", !.resp = 400]]
            ELSE /\ writes[stored_state] < MaxWrites
                 /\ slot' = [slot EXCEPT ![s] =
                        IF ~Parses(TokenContent)
                        THEN [base EXCEPT !.pc = "done", !.resp = 500,
                                          !.err = "JSONDecodeError"]
                        ELSE IF ~accepted
                        THEN [base EXCEPT !.pc = "done", !.resp = 500,
                                          !.err = "Exception"]
                        ELSE [base EXCEPT !.pc = "load",
                                          !.rec = <<TokenRecord("granted")>>]]
    /\ UNCHANGED <<emails, queue, nextId, mappings, signals, jobs, poolVars, oauthVars>>

\* _save_token: open(token_path), json.load; the new token goes into the
\* record that was read
SaveLoad(s) ==
    /\ slot[s].op \in OAuthOps /\ slot[s].pc = "load"
    /\ slot' = [slot EXCEPT ![s] =
           IF Parses(TokenContent)
           THEN [slot[s] EXCEPT !.pc = "open",
                                !.rec = <<[TokenContent[1] EXCEPT
                                             !.token = slot[s].rec[1].token]>>]
           ELSE [slot[s] EXCEPT !.pc = "done", !.resp = 500,
                                !.err = "JSONDecodeError"]]
    /\ UNCHANGED <<emails, queue, nextId, mappings, signals, jobs, poolVars, oauthVars>>

\* open(temp_path, "w"): the temp name is the same for every save
\* (token_path + ".tmp"); the file is created, or truncated when it exists
SaveOpen(s) ==
    /\ slot[s].op \in OAuthOps /\ slot[s].pc = "open"
    /\ IF fs.tmp = 0
       THEN /\ Len(fs.data) < MaxInodes
            /\ fs' = [fs EXCEPT !.tmp = Len(fs.data) + 1, !.data = Append(fs.data, <<>>)]
            /\ slot' = [slot EXCEPT ![s].pc = "write", ![s].fd = Len(fs.data) + 1]
       ELSE /\ fs' = [fs EXCEPT !.data[fs.tmp] = <<>>]
            /\ slot' = [slot EXCEPT ![s].pc = "write", ![s].fd = fs.tmp]
    /\ UNCHANGED <<emails, queue, nextId, mappings, signals, jobs, poolVars, issued, writes>>

\* json.dump and the close of the temp file: the record reaches the inode the
\* handle was opened on
SaveWrite(s) ==
    /\ slot[s].op \in OAuthOps /\ slot[s].pc = "write"
    /\ fs' = [fs EXCEPT !.data[slot[s].fd] = slot[s].rec]
    /\ writes' = IF slot[s].op = "callback"
                 THEN [writes EXCEPT ![slot[s].state] = @ + 1]
                 ELSE writes
    /\ slot' = [slot EXCEPT ![s].pc = "rename"]
    /\ UNCHANGED <<emails, queue, nextId, mappings, signals, jobs, poolVars, issued>>

\* temp_path.rename(token_path): FileNotFoundError when another save has
\* renamed the temp file away
SaveRename(s) ==
    /\ slot[s].op \in OAuthOps /\ slot[s].pc = "rename"
    /\ IF fs.tmp = 0
       THEN /\ fs' = fs
            /\ slot' = [slot EXCEPT ![s].pc = "done", ![s].resp = 500,
                                    ![s].err = "FileNotFoundError"]
       ELSE /\ fs' = [fs EXCEPT !.token = fs.tmp, !.tmp = 0]
            /\ slot' = [slot EXCEPT ![s].pc = "done", ![s].resp = 200]
    /\ UNCHANGED <<emails, queue, nextId, mappings, signals, jobs, poolVars, issued, writes>>
\* ----------------------------------------------------------- specifications
\* a request of the base scenario: priority and days left to their defaults,
\* at most one filter, and a filter that names the stored email
PlainRequest(s) ==
    /\ slot'[s].req.priority = {}
    /\ slot'[s].req.days \in {0, DefaultDays}
    /\ slot'[s].req.gmail_ids \subseteq {"g1"}
    /\ slot'[s].req.senders \subseteq {StarExample}
    /\ FiltersProvided(slot'[s].req.gmail_ids, slot'[s].req.senders,
                       slot'[s].req.label) <= 1

\* the queue handlers, one request at a time, and the worker
Next ==
    \/ RerunStart(1) /\ PlainRequest(1)
    \/ RerunInsert(1)
    \/ BackfillStart(1) /\ PlainRequest(1)
    \/ BackfillInsert(1)
    \/ RetryCheck(1)
    \/ RetryUpdate(1)
    \/ DeleteCheck(1)
    \/ DeleteExec(1)
    \/ RetryAll(1)
    \/ CancelBackfill(1)
    \/ WorkerTake
    \/ WorkerComplete
    \/ WorkerFail
    \/ Finish(1)

Spec == Init /\ [][Next]_vars

\* dead-letter recovery with two requests in flight; the rows come from rerun
\* requests and move through the worker
NextRace ==
    \/ \E s \in Slots : RerunStart(s) /\ PlainRequest(s)
    \/ \E s \in Slots : RerunInsert(s)
    \/ \E s \in Slots : RetryCheck(s)
    \/ \E s \in Slots : RetryUpdate(s)
    \/ \E s \in Slots : DeleteCheck(s)
    \/ \E s \in Slots : DeleteExec(s)
    \/ \E s \in Slots : RetryAll(s)
    \/ WorkerTake
    \/ WorkerComplete
    \/ WorkerFail
    \/ \E s \in Slots : Finish(s)

SpecRace == Init /\ [][NextRace]_vars

\* two enqueue triggers racing while worker and recovery are quiescent: a
\* trigger starts only while no answered request is waiting to be collected,
\* the worker moves only while no request is in flight
NoneDone == \A t \in Slots : slot[t].pc # "done"
AllIdle == \A t \in Slots : slot[t].pc = "idle"

NextQuiet ==
    \/ \E s \in Slots : NoneDone /\ RerunStart(s) /\ PlainRequest(s)
    \/ \E s \in Slots : RerunInsert(s)
    \/ \E s \in Slots : NoneDone /\ BackfillStart(s) /\ PlainRequest(s)
    \/ \E s \in Slots : BackfillInsert(s)
    \/ AllIdle /\ WorkerTake
    \/ AllIdle /\ WorkerComplete
    \/ AllIdle /\ WorkerFail
    \/ \E s \in Slots : Finish(s)

SpecQuiet == Init /\ [][NextQuiet]_vars

\* a request whose sender patterns are those of the example domain
TrigRequest(s) == slot'[s].req.senders \subseteq {StarExample, BarExample, <<>>}

\* the enqueue triggers with every combination of filters, window, priority
\* and force, one request at a time; the worker moves between requests
NextTrig ==
    \/ RerunStart(1) /\ TrigRequest(1)
    \/ RerunInsert(1)
    \/ BackfillStart(1)
    \/ BackfillInsert(1)
    \/ AllIdle /\ WorkerTake
    \/ AllIdle /\ WorkerComplete
    \/ AllIdle /\ WorkerFail
    \/ Finish(1)

SpecTrig == Init /\ [][NextTrig]_vars

\* a request of the selection scenarios: not forced, for the triage queue,
\* the caller's priority left out, and ids, when given, naming a stored email
SelRequest(s) ==
    /\ ~slot'[s].force
    /\ slot'[s].q \in {NULL, "triage"}
    /\ slot'[s].req.priority = {}
    /\ slot'[s].req.gmail_ids \subseteq {"g1"}
    /\ slot'[s].req.senders \subseteq {StarSpam, UnderscoreSpam, PercentSpam, BackslashSpam}

\* the enqueue triggers over a store drawn from the catalogue, one request at
\* a time; the worker takes rows between requests
NextSel ==
    \/ RerunStart(1) /\ SelRequest(1)
    \/ RerunInsert(1)
    \/ BackfillStart(1) /\ SelRequest(1)
    \/ BackfillInsert(1)
    \/ AllIdle /\ WorkerTake
    \/ Finish(1)

SpecSel == InitSel /\ [][NextSel]_vars

\* the mapping handlers, two requests in flight
NextMap ==
    \/ \E s \in Slots : AddStart(s)
    \/ \E s \in Slots : UpdateStart(s)
    \/ \E s \in Slots : DeleteMappingStart(s)
    \/ \E s \in Slots : MappingFetch(s)
    \/ \E s \in Slots : Finish(s)

SpecMap == Init /\ [][NextMap]_vars

\* the sync backfill job endpoints, two requests in flight, while the sync
\* worker moves the jobs
NextSync ==
    \/ \E s \in Slots : TriggerSync(s)
    \/ \E s \in Slots : GetSyncJob(s)
    \/ \E s \in Slots : CancelSyncUpdate(s)
    \/ \E s \in Slots : CancelSyncCheck(s)
    \/ SyncWorkerStart
    \/ SyncWorkerComplete
    \/ SyncWorkerFail
    \/ \E s \in Slots : Finish(s)

SpecSync == Init /\ [][NextSync]_vars

\* connection scopes and health checks, two callers in flight
NextPool ==
    \/ \E s \in Slots : ScopeEnter(s)
    \/ \E s \in Slots : ScopeExit(s)
    \/ \E s \in Slots : CheckPostgres(s)
    \/ \E s \in Slots : Finish(s)

SpecPool == Init /\ [][NextPool]_vars

\* the OAuth endpoints, two requests in flight
NextOAuth ==
    \/ \E s \in Slots : Status(s)
    \/ \E s \in Slots : RefreshStart(s)
    \/ \E s \in Slots : Start(s)
    \/ \E s \in Slots : CallbackStart(s)
    \/ \E s \in Slots : SaveLoad(s)
    \/ \E s \in Slots : SaveOpen(s)
    \/ \E s \in Slots : SaveWrite(s)
    \/ \E s \in Slots : SaveRename(s)
    \/ \E s \in Slots : Finish(s)

SpecOAuth == Init /\ [][NextOAuth]_vars

\* ------------------------------------------------------------------ claims
RowIds(q) == { r.id : r \in q }
NonTerminalRows(q, qn, g) ==
    { r \in q : r.queue_name = qn /\ PayloadGmail(r) = g /\ r.status \in NonTerminal }

\* a non-forced enqueue trigger whose statement has run
TriggerDone(s) ==
    /\ slot[s].pc = "done"
    /\ slot[s].op \in {"rerun", "backfill"}
    /\ slot[s].resp # 400
    /\ ~slot[s].force

\* C1: when two different non-forced enqueue triggers have run concurrently
\* and the filters of both matched the same email for the same queue, exactly
\* one pending or processing row exists for that (queue, email) once both
\* have completed.
C1_ExactlyOneAfterRace ==
    \A s \in Slots, t \in Slots :
        ( /\ s # t /\ TriggerDone(s) /\ TriggerDone(t)
          /\ ~(slot[s].op = "backfill" /\ slot[t].op = "backfill")
          /\ slot[s].q = slot[t].q )
        => \A g \in slot[s].sel \cap slot[t].sel :
              Cardinality(NonTerminalRows(queue, slot[s].q, g)) = 1

\* C2: in every reachable state at most one pending or processing row exists
\* for each (queue_name, gmail_id).
C2_AtMostOneNonTerminal ==
    \A qn \in QueueNames, e \in emails :
        Cardinality(NonTerminalRows(queue, qn, e.gmail_id)) <= 1

C4_CreateThenList ==
    [][ \A s \in Slots :
          ( /\ slot[s].op = "add" /\ slot[s].pc = "fetch" /\ slot'[s].pc = "done"
            /\ slot[s].mtype = TypePriority /\ slot[s].email = FooExample )
          => /\ slot'[s].resp = 201
             /\ Cardinality({ m \in ListMappings(mappings', TypePriority) :
                                m.email_address = FooExample }) = 1 ]_vars

C6_RetryOutcomes ==
    [][ \A s \in Slots :
          /\ (slot[s].pc = "idle" /\ slot'[s].op = "retry")
             => LET job == { r \in queue : r.id = slot'[s].job }
                IN /\ queue' = queue
                   /\ job = {} => (slot'[s].pc = "done" /\ slot'[s].resp = 404)
                   /\ (job # {} /\ \E r \in job : r.status # "failed")
                      => (slot'[s].pc = "done" /\ slot'[s].resp = 400)
                   /\ (job # {} /\ \A r \in job : r.status = "failed")
                      => slot'[s].pc = "update"
          /\ (slot[s].op = "retry" /\ slot[s].pc = "update" /\ slot'[s].pc = "done")
             => /\ slot'[s].resp = 200
                /\ queue' = { IF r.id = slot[s].job
                              THEN [r EXCEPT !.status = "pending", !.attempts = 0,
                                             !.error = NULL]
                              ELSE r : r \in queue } ]_vars

\* C7: delete removes a row only if that row is failed and is the one named:
\* an unknown id is answered 404 and a row that is not failed 400, both with
\* the queue untouched, and no step removes any other row.
C7_DeleteOnlyFailed ==
    [][ /\ \A s \in Slots :
             (slot[s].pc = "idle" /\ slot'[s].op = "delete")
             => LET job == { r \in queue : r.id = slot'[s].job }
                IN /\ queue' = queue
                   /\ job = {} => (slot'[s].pc = "done" /\ slot'[s].resp = 404)
                   /\ (job # {} /\ \E r \in job : r.status # "failed")
                      => (slot'[s].pc = "done" /\ slot'[s].resp = 400)
        /\ \A r \in queue :
             r.id \notin RowIds(queue')
             => /\ r.status = "failed"
                /\ \E s \in Slots : /\ slot[s].op = "delete" /\ slot[s].job = r.id
                                    /\ slot'[s].resp = 200 ]_vars

\* C8: right after a retry-all call on a queue no row of that queue is failed,
\* so a second call with no new failure in between returns 0.
C8_RetryAllIdempotent ==
    [][ \A s \in Slots :
          (slot[s].pc = "idle" /\ slot'[s].op = "retry_all" /\ slot'[s].resp # 400)
          => { r \in queue' : r.status = "failed" /\ r.queue_name = slot'[s].q } = {} ]_vars

\* C9: retry-all on a named queue turns exactly the failed rows of that queue
\* into pending rows with attempts 0 and error cleared, answers their count
\* (0 when there are none) and changes no other row; without a queue
\* parameter it answers 400.
C9_RetryAllScope ==
    [][ \A s \in Slots :
          (slot[s].pc = "idle" /\ slot'[s].op = "retry_all")
          => IF slot'[s].q = NULL
             THEN slot'[s].resp = 400 /\ queue' = queue
             ELSE LET failed == { r \in queue : r.status = "failed"
                                                /\ r.queue_name = slot'[s].q }
                  IN /\ slot'[s].resp = 200
                     /\ slot'[s].count = Cardinality(failed)
                     /\ queue' = { IF r \in failed
                                   THEN [r EXCEPT !.status = "pending", !.attempts = 0,
                                                  !.error = NULL]
                                   ELSE r : r \in queue } ]_vars

RecoveryOps == { "retry", "retry_all", "delete" }

\* C10: no step of a retry, retry-all or delete call adds a queue row or a
\* signal.
C10_RecoveryAddsNothing ==
    [][ \A s \in Slots :
          (slot'[s] # slot[s] /\ slot'[s].op \in RecoveryOps)
          => /\ RowIds(queue') \subseteq RowIds(queue)
             /\ signals' = signals ]_vars

\* C10 witness: a retry has been answered 200 and its row is pending again
C10_RetrySucceeded ==
    \E s \in Slots :
        /\ slot[s].op = "retry" /\ slot[s].pc = "done" /\ slot[s].resp = 200
        /\ \E r \in queue : r.id = slot[s].job /\ r.status = "pending" /\ r.attempts = 0

\* number of filters a rerun request supplies: a filter counts when it holds
\* at least one non-empty value
SuppliedFilters(r) ==
    (IF r.gmail_ids # {} THEN 1 ELSE 0) + (IF r.label # NULL THEN 1 ELSE 0)
        + (IF \E p \in r.senders : p # <<>> THEN 1 ELSE 0)

\* C11: a rerun request that supplies more than one of gmail_ids, label and
\* senders, or none, is answered 400 without a step against the store: no
\* insert follows and the queue is unchanged.
C11_OneFilterOnly ==
    [][ \A s \in Slots :
          ( /\ slot[s].pc = "idle" /\ slot'[s].op = "rerun"
            /\ SuppliedFilters(slot'[s].req) # 1 )
          => /\ slot'[s].pc = "done" /\ slot'[s].resp = 400
             /\ queue' = queue /\ nextId' = nextId ]_vars

\* C11 witness: a request with two filters has been answered 400 while the
\* queue holds a row
C11_TwoFiltersRejected ==
    \E s \in Slots :
        /\ slot[s].op = "rerun" /\ slot[s].pc = "done" /\ slot[s].resp = 400
        /\ SuppliedFilters(slot[s].req) = 2
        /\ queue # {}

\* C12: a row enqueued without a caller-supplied priority gets 0 from a
\* rerun, -100 from a backfill and -200 from a mapping-change re-enqueue; a
\* caller-supplied priority replaces the default of rerun and backfill.
C12_PriorityDefaults ==
    [][ \A r \in queue' :
          r.id \notin RowIds(queue)
          => \/ r.payload.tag = "mapping_change" /\ r.priority = -200
             \/ \E s \in Slots :
                   /\ slot[s].pc = "insert" /\ slot'[s].pc = "done"
                   /\ r.payload.tag = slot[s].op
                   /\ r.priority = IF slot[s].req.priority # {}
                                   THEN CHOOSE p \in slot[s].req.priority : TRUE
                                   ELSE IF slot[s].op = "rerun" THEN 0 ELSE -100 ]_vars

\* C12 as amended: the default of a rerun is -100, like that of a backfill.
C12_PriorityDefaultsAmended ==
    [][ \A r \in queue' :
          r.id \notin RowIds(queue)
          => \/ r.payload.tag = "mapping_change" /\ r.priority = -200
             \/ \E s \in Slots :
                   /\ slot[s].pc = "insert" /\ slot'[s].pc = "done"
                   /\ r.payload.tag = slot[s].op
                   /\ r.priority = IF slot[s].req.priority # {}
                                   THEN CHOOSE p \in slot[s].req.priority : TRUE
                                   ELSE -100 ]_vars

\* C12 witness: the queue holds a rerun row with the default priority and a
\* backfill row with the caller's priority
C12_DefaultAndOverride ==
    /\ \E r \in queue : r.payload.tag = "rerun" /\ r.priority = -100
    /\ \E r \in queue : r.payload.tag = "backfill" /\ r.priority = 5

\* the emails the statement of the request in slot s would select if it were
\* issued again, without force, against the queue q
Reissued(s, q) ==
    IF slot[s].op = "rerun"
    THEN RerunDedup(q, RerunMatched(emails, slot[s].req.gmail_ids,
                                    NonEmpty(slot[s].req.senders),
                                    slot[s].req.label, slot[s].req.days), FALSE)
    ELSE BackfillDedup(q, slot[s].q,
                       BackfillMatched(emails, slot[s].req.label, slot[s].req.days))

\* C13: the count an enqueue trigger returns is the number of rows the call
\* added to the queue, and the same non-forced trigger issued again on the
\* queue it left selects nothing, so it returns 0 and adds nothing.
C13_CountIsInserted ==
    [][ \A s \in Slots :
          ( /\ slot[s].op \in {"rerun", "backfill"}
            /\ slot[s].pc = "insert" /\ slot'[s].pc = "done" /\ slot'[s].resp = 200 )
          => /\ slot'[s].count = Cardinality(queue') - Cardinality(queue)
             /\ queue \subseteq queue'
             /\ ~slot[s].force => Reissued(s, queue') = {} ]_vars

\* C13 witness: a trigger whose filter matched an email has returned 0
C13_MatchedButNotInserted ==
    \E s \in Slots :
        /\ slot[s].op \in {"rerun", "backfill"} /\ slot[s].pc = "done"
        /\ slot[s].resp = 200 /\ slot[s].sel # {} /\ slot[s].count = 0

\* C19: a forced rerun adds a new pending row for every selected email, also
\* for one that already has a pending triage row; a rerun without force adds
\* no row for an email that has a pending or processing triage row.
C19_ForceEnqueues ==
    [][ \A s \in Slots :
          (slot[s].op = "rerun" /\ slot[s].pc = "insert" /\ slot'[s].pc = "done")
          => IF slot[s].force
             THEN \A g \in slot[s].sel :
                     \E r \in queue' : /\ r.id \notin RowIds(queue)
                                        /\ r.queue_name = "triage"
                                        /\ PayloadGmail(r) = g
                                        /\ r.status = "pending"
             ELSE \A r \in queue' :
                     r.id \notin RowIds(queue)
                     => NonTerminalRows(queue, "triage", PayloadGmail(r)) = {} ]_vars


\* C15: two creates for (priority, foo@example.com), in whatever letter case
\* or padding the address was sent, while no non-deleted mapping of that type
\* and address exists, end with one 201, one 409 and exactly one stored
\* non-deleted row for the pair.
C15_OneCreateWins ==
    \A s, t \in Slots :
        ( /\ s # t
          /\ \A u \in {s, t} : /\ slot[u].op = "add" /\ slot[u].pc = "done"
                               /\ slot[u].mtype = TypePriority
                               /\ slot[u].email = FooExample )
        => /\ {slot[s].resp, slot[t].resp} = {201, 409}
           /\ Cardinality({ m \in mappings : /\ ~m.deleted
                                             /\ m.mapping_type = TypePriority
                                             /\ m.email_address = FooExample }) = 1

\* an email has a row in classifications
HasClassification(x) == \E c \in Classifications : c.email_id = x.id

\* C16: a label-filter rerun selects exactly the emails created inside the
\* window whose latest classification has the filter label; an older
\* classification with the filter label does not select the email.
C16_LatestClassification ==
    [][ \A s \in Slots :
          ( /\ slot[s].pc = "idle" /\ slot'[s].op = "rerun" /\ slot'[s].pc = "insert"
            /\ slot'[s].req.label # NULL )
          => LET Latest(x) ==
                     LET cs == { c \in Classifications : c.email_id = x.id }
                     IN CHOOSE c \in cs : \A d \in cs : d.at <= c.at
             IN slot'[s].sel =
                  { x.gmail_id : x \in { y \in emails :
                        /\ y.age <= slot'[s].req.days
                        /\ HasClassification(y)
                        /\ Latest(y).label = slot'[s].req.label } } ]_vars

\* a glob match in which * stands for any run of characters and every other
\* character for itself
RECURSIVE GlobMatch(_, _)
GlobMatch(str, p) ==
    IF p = <<>> THEN str = <<>>
    ELSE IF Head(p) = "*"
         THEN GlobMatch(str, Tail(p)) \/ (str # <<>> /\ GlobMatch(Tail(str), p))
    ELSE str # <<>> /\ Head(str) = Head(p) /\ GlobMatch(Tail(str), Tail(p))

\* C17: a sender-filter rerun selects exactly the emails of the window whose
\* sender matches a pattern with * as the only wildcard: *@spam.com selects
\* alice@spam.com and not alice@spam.com.evil.net, and a_b@spam.com, a%b@spam.com
\* and a\b@spam.com do not select aXb@spam.com.
C17_SenderGlob ==
    [][ \A s \in Slots :
          ( /\ slot[s].pc = "idle" /\ slot'[s].op = "rerun" /\ slot'[s].pc = "insert"
            /\ NonEmpty(slot'[s].req.senders) # {} )
          => /\ slot'[s].sel =
                  { x.gmail_id : x \in { y \in emails :
                        /\ y.age <= slot'[s].req.days
                        /\ \E p \in NonEmpty(slot'[s].req.senders) :
                              GlobMatch(y.from_addr, p) } }
             /\ slot'[s].req.senders = {StarSpam}
                => /\ Email2 \in emails => "g2" \in slot'[s].sel
                   /\ (Email3 \in emails /\ slot'[s].req.days = 30)
                      => "g3" \in slot'[s].sel
                   /\ "g4" \notin slot'[s].sel
             /\ slot'[s].req.senders \in {{UnderscoreSpam}, {PercentSpam}, {BackslashSpam}}
                => "g6" \notin slot'[s].sel
             /\ slot'[s].req.senders = {UnderscoreSpam}
                => (Email5 \in emails => "g5" \in slot'[s].sel) ]_vars

\* C17 witness: *@spam.com has selected the email from alice@spam.com and not
\* the one from alice@spam.com.evil.net
C17_SuffixSelected ==
    \E s \in Slots :
        /\ slot[s].op = "rerun" /\ slot[s].pc = "done" /\ slot[s].resp = 200
        /\ slot[s].req.senders = {StarSpam}
        /\ emails = {Email2, Email4}
        /\ slot[s].sel = {"g2"}
        /\ \E r \in queue : PayloadGmail(r) = "g2"

\* C18: a backfill with days=7 and label X adds rows only for emails created
\* within the last 7 days that carry label X, and none for an email that has a
\* pending or processing row in the target queue, whichever trigger wrote it.
C18_BackfillNoDuplicate ==
    [][ \A s \in Slots :
          ( /\ slot[s].op = "backfill" /\ slot[s].pc = "insert" /\ slot'[s].pc = "done"
            /\ slot[s].req.days = DefaultDays /\ slot[s].req.label = "X" )
          => \A r \in queue' :
                r.id \notin RowIds(queue)
                => /\ r.queue_name = slot[s].q
                   /\ \E x \in emails : /\ x.gmail_id = PayloadGmail(r)
                                        /\ x.age <= DefaultDays
                                        /\ "X" \in x.label_ids
                   /\ NonTerminalRows(queue, slot[s].q, PayloadGmail(r)) = {} ]_vars

\* C20: the cancel UPDATE acts on a job, and is answered 200, only when the
\* job is pending or running at the moment of the statement; no step of the
\* handler sets a completed, failed or cancelled job to cancelled; a cancel
\* that finds the job in a terminal status ends in 400 and one that finds no
\* job in 404, both leaving every job as it was.
C20_CancelOnlyCancellable ==
    [][ \A s \in Slots :
          /\ ( slot[s].pc = "idle" /\ slot'[s].op = "sync_cancel" )
             => /\ slot'[s].resp = 200
                   <=> \E j \in jobs : /\ j.id = slot'[s].job
                                       /\ j.status \in {"pending", "running"}
                /\ slot'[s].resp # 200 => slot'[s].pc = "check" /\ jobs' = jobs
                /\ \A j \in jobs' : (j.status = "cancelled" /\ j \notin jobs)
                      => \E o \in jobs : /\ o.id = j.id
                                         /\ o.status \in {"pending", "running"}
          /\ ( slot[s].op = "sync_cancel" /\ slot[s].pc = "check" /\ slot'[s].pc = "done" )
             => /\ jobs' = jobs
                /\ slot'[s].resp = IF \E j \in jobs : j.id = slot[s].job
                                   THEN 400 ELSE 404
                /\ (\E j \in jobs : j.id = slot[s].job /\ j.status \in SyncTerminal)
                   => slot'[s].resp = 400 ]_vars

\* C20 witness: a cancel of a job the sync worker had completed was answered
\* 400 while another cancel, of a job still running, was answered 200
C20_TerminalRefused ==
    \E s \in Slots, t \in Slots :
        /\ slot[s].op = "sync_cancel" /\ slot[s].pc = "done" /\ slot[s].resp = 400
        /\ \E j \in jobs : j.id = slot[s].job /\ j.status = "completed"
        /\ slot[t].op = "sync_cancel" /\ slot[t].pc = "done" /\ slot[t].resp = 200

\* C24: a backfill cancel for a queue sets to cancelled only rows of that
\* queue that are pending and were enqueued by a backfill; every other row is
\* left as it was.
C24_CancelOnlyBackfillRows ==
    [][ \A s \in Slots :
          (slot[s].pc = "idle" /\ slot'[s].op = "cancel" /\ slot'[s].resp = 200)
          => \A r \in queue :
                IF /\ r.queue_name = slot'[s].q /\ r.status = "pending"
                   /\ r.payload.tag = "backfill"
                THEN \E n \in queue' : n.id = r.id /\ n.status \in {"pending", "cancelled"}
                ELSE r \in queue' ]_vars

\* C25: the UPDATE of a retry changes a row only if that row is failed at the
\* moment of the write: a row that is pending, processing, completed or
\* cancelled then keeps its status, attempts and error.
C25_RetryWritesOnlyFailed ==
    [][ \A s \in Slots :
          (slot[s].op = "retry" /\ slot[s].pc = "update" /\ slot'[s].pc = "done")
          => \A r \in queue : r.status # "failed" => r \in queue' ]_vars

\* C26: the DELETE of a delete request removes no row whose status at the
\* moment of the removal is not failed.
C26_DeleteRemovesOnlyFailed ==
    [][ \A s \in Slots :
          (slot[s].op = "delete" /\ slot[s].pc = "update" /\ slot'[s].pc = "done")
          => \A r \in queue : r.status # "failed" => r.id \in RowIds(queue') ]_vars

\* C27: when a mapping create, update or soft-delete has run its statement,
\* every stored email whose sender equals the mapping's address ignoring case
\* has a pending or processing triage row, added by the request where none
\* existed, and no email has two such rows.
C27_ReenqueueOnMappingChange ==
    [][ \A s \in Slots :
          (slot[s].op \in MappingOps /\ slot[s].pc = "fetch" /\ slot'[s].pc = "done")
          => \A g \in SenderMatched(emails, slot[s].email) :
                Cardinality(NonTerminalRows(queue', "triage", g)) = 1 ]_vars

\* C28: a sync mutation answered as successful is in the store: after a 201
\* of the trigger the job with the returned id exists, and after a 200 of the
\* cancel the job's stored status is cancelled.
C28_SyncMutationPersisted ==
    [][ \A s \in Slots :
          /\ ( slot[s].pc = "idle" /\ slot'[s].op = "sync_trigger" /\ slot'[s].resp = 201 )
             => \E j \in jobs' : j.id = slot'[s].job
          /\ ( slot[s].pc = "idle" /\ slot'[s].op = "sync_cancel" /\ slot'[s].resp = 200 )
             => \E j \in jobs' : j.id = slot'[s].job /\ j.status = "cancelled" ]_vars

\* C30: no mapping row that add_mapping writes, inside its transaction or
\* committed, has a mapping_type other than 'priority' or 'fallback'.
C30_StoredTypeExact ==
    \A m \in mappings \cup UNION { slot[s].tx : s \in Slots } :
        m.mapping_type \in { TypePriority, TypeFallback }

\* C21: the connections checked out of the pool are exactly those held by
\* the callers inside a connection scope, so with no caller in flight none is
\* checked out.
C21_EveryConnectionReturned ==
    used = Cardinality({ s \in Slots : slot[s].conn })

\* C22: a caller asking for a connection is not refused while another caller
\* holds a connection that is going to be returned.
C22_WaitsForReturn ==
    [][ \A s \in Slots :
          ( /\ slot[s].pc = "idle" /\ slot'[s].op \in ScopeOps
            /\ \E t \in Slots \ {s} : slot[t].conn )
          => slot'[s].pc = "scope" ]_vars

\* C23: under any interleaving of saves the token file holds one complete
\* record, and no save ends in an error because another save is in progress.
C23_AtomicSave ==
    /\ Parses(TokenContent)
    /\ \A s \in Slots :
          (slot[s].op \in OAuthOps /\ slot[s].pc = "done")
          => slot[s].err \notin {"JSONDecodeError", "FileNotFoundError"}

\* C29: a callback whose state parameter is missing or differs from the state
\* of its session is answered 400 and writes nothing, a callback writes the
\* token file only with a matching state, and no state authorises more than
\* one token write.
C29_StateAuthorisesOneWrite ==
    [][ /\ \A s \in Slots :
             (slot[s].pc = "idle" /\ slot'[s].op = "callback")
             => ( ( \/ slot'[s].state = NULL \/ slot'[s].cookie = NULL
                    \/ slot'[s].state # slot'[s].cookie )
                  => (slot'[s].pc = "done" /\ slot'[s].resp = 400 /\ fs' = fs) )
        /\ \A s \in Slots :
             (slot[s].op = "callback" /\ slot[s].pc \in {"load", "open", "write", "rename"})
             => slot[s].state = slot[s].cookie /\ slot[s].state \in issued
        /\ \A st \in OAuthStates : writes'[st] <= 1 ]_vars
====
